---- MODULE Spec2Model ----
(***************************************************************************)
(* A model of src/plotting.py: the four plotting entry points              *)
(* plot_trace_waveform, plot_trace_image, plot_unit_waveform and            *)
(* plot_peak_waveform, the figures they build, the exceptions they let      *)
(* propagate, and the process-wide numpy random generator they share.       *)
(*                                                                         *)
(* A session is a sequence of top-level calls.  pc is the position inside   *)
(* the running call: "idle" between calls, "done" when the call has         *)
(* returned and "raised" when it has let an exception out.  call names the  *)
(* top-level function, err the exception, shown counts the figures that     *)
(* plt.show() has displayed during the call, rng is the state of the        *)
(* process-wide generator, and tw, pk, im, un hold the arguments and locals *)
(* of the four functions.  ref belongs to an observer of plot_unit_waveform *)
(* that keeps one finished call's inputs and selection.                     *)
(***************************************************************************)
EXTENDS Integers, Sequences, FiniteSets

VARIABLES pc, call, err, shown, rng, tw, pk, im, un, ref

vars == <<pc, call, err, shown, rng, tw, pk, im, un, ref>>

(***************************************************************************)
(* Bounds of the model.                                                     *)
(***************************************************************************)
\* longest channel list passed to plot_trace_waveform
MaxLen == 5
\* largest row label of a peaks table, and of start_idx / end_idx
MaxIdx == 2
\* largest num_waveforms
MaxNum == 3
\* number of states of the abstract random generator
RngMod == 5

(***************************************************************************)
(* Input domains.                                                           *)
(***************************************************************************)
\* The recording has the channels ValidChannels: trace_snippet[:, c] raises
\* IndexError for any other c of ChannelIds.
ValidChannels == {0, 1}
ChannelIds == {0, 1, 2}
SampleTimes == {10}
Seeds == {0, 1, 2}
UnitIds == {0, 1, 2}
\* spikes[k] is the unit of the k-th spike; its frame is FrameOfSpike(k)
SpikeTables == {<<0, 1, 0>>, <<1, 0, 1, 1>>}
Amplitudes == {-1, 0, 2}
VariantCounts == {1, 2, 3}
TimeIdx == {0, 1}
ChanIdx == {0}

Ready == pc = "idle"

(***************************************************************************)
(* Python values that reach plot_trace_waveform as `channels`: a list, or   *)
(* the scalar a table cell holds.                                           *)
(***************************************************************************)
PyList(s) == [kind |-> "list", val |-> 0, items |-> s]

PyInt(c) == [kind |-> "int", val |-> c, items |-> <<>>]

RECURSIVE SeqsUpTo(_, _)
SeqsUpTo(S, n) ==
    IF n = 0 THEN {<<>>}
    ELSE LET shorter == SeqsUpTo(S, n - 1)
         IN  shorter \cup {Append(s, x) : s \in {t \in shorter : Len(t) = n - 1}, x \in S}

ChannelLists == {PyList(s) : s \in SeqsUpTo(ChannelIds, MaxLen)}

\* len(channels): defined for a list, TypeError for a numpy integer
HasLen(v) == v.kind = "list"

\* trace_snippet[:, c] is defined for the recording's channels only
ValidChannel(c) == c \in ValidChannels

MinOf(S) == CHOOSE x \in S : \A y \in S : x <= y

MaxOf(S) == CHOOSE x \in S : \A y \in S : x >= y

(***************************************************************************)
(* The process-wide generator behind np.random: a state, a seeding that     *)
(* depends on the seed alone, and draws that depend on the state alone.     *)
(***************************************************************************)
RngStates == 0 .. RngMod - 1

NpRandomSeedSkipped(state, seed) == state

\* np.random.seed(seed)
NpRandomSeed(state, seed) == seed % RngMod

\* one draw advances the state; the generator's own algorithm (MT19937) is
\* stood for by a small congruential step
RngStep(state) == (2 * state + 1) % RngMod

\* np.random.choice(a, size) with len(a) = n: size positions of a, each drawn
\* from 0 .. n-1 independently of the earlier ones (replace defaults to True).
\* The result is <<positions, generator state afterwards>>.
RECURSIVE NpRandomChoice(_, _, _)
NpRandomChoice(state, n, size) ==
    IF size = 0 THEN <<(<<>>), state>>
    ELSE LET s1 == RngStep(state)
             rest == NpRandomChoice(s1, n, size - 1)
         IN  <<(<<s1 % n>>) \o rest[1], rest[2]>>

(***************************************************************************)
(* plot_trace_waveform                                                      *)
(***************************************************************************)
\* int(np.ceil(np.sqrt(n))): the least c with c*c >= n
CeilSqrt(n) == CHOOSE c \in 0 .. n : c * c >= n /\ \A d \in 0 .. n : d * d >= n => c <= d

FloorDiv(n, d) == n \div d

\* np.ceil(n / d).astype(int), d > 0
CeilDiv(n, d) == (n + d - 1) \div d

GridCols(n) == CeilSqrt(n)

GridRows(n) == CeilDiv(n, GridCols(n))

BlankCell == [plots |-> <<>>, off |-> 0]

\* plt.subplots(rows, cols) followed by np.array(axs).reshape(-1)
Subplots(rows, cols) == [k \in 1 .. rows * cols |-> BlankCell]

FirstUnusedOffByOne(t) == t.num_channels + 1

\* range(num_channels, rows * cols) starts at num_channels
FirstUnused(t) == t.num_channels

TwNone == [caller |-> "none", sample_time |-> 0, channels |-> PyList(<<>>),
           num_channels |-> 0, cols |-> 0, rows |-> 0, axs |-> <<>>, i |-> 0]

TwEnter(caller, sample_time, channels) ==
    [TwNone EXCEPT !.caller = caller, !.sample_time = sample_time, !.channels = channels]

PkNone == [table |-> <<>>, start_idx |-> 0, end_idx |-> 0, idx |-> 0,
           calls |-> <<>>, plotted |-> <<>>]

ImNone == [nvar |-> 0, trace_reshaped |-> <<>>, trace_transposed |-> <<>>,
           vmin |-> 0, vmax |-> 0, panels |-> <<>>, i |-> 0]

UnNone == [spikes |-> <<>>, unit_id |-> 0, channel_id |-> 0, all_waveforms |-> FALSE,
           num_waveforms |-> 0, seed |-> 0, sample_frames |-> <<>>, sampled |-> FALSE,
           positions |-> <<>>, frames_to_plot |-> <<>>, lines |-> <<>>]

RefNone == [set |-> FALSE, key |-> <<>>, sel |-> <<>>]

PcAfterRaiseSwallowed(caller) == IF caller = "peak" THEN "pk_ret" ELSE "raised"

\* No function of the module catches anything: an exception raised inside
\* plot_trace_waveform leaves it and, when plot_peak_waveform called it,
\* leaves that loop too.
PcAfterRaise(caller) == "raised"

Raise(e, caller) ==
    /\ pc' = PcAfterRaise(caller)
    /\ err' = e

TwCall ==
    /\ Ready
    /\ \E t \in SampleTimes, ch \in ChannelLists :
          tw' = TwEnter("top", t, ch)
    /\ pc' = "tw_grid"
    /\ call' = "plot_trace_waveform"
    /\ UNCHANGED <<err, shown, rng, pk, im, un, ref>>

\* len(channels) on a value without a length
TwLenTypeError ==
    /\ pc = "tw_grid"
    /\ ~HasLen(tw.channels)
    /\ Raise("TypeError", tw.caller)
    /\ UNCHANGED <<call, shown, rng, tw, pk, im, un, ref>>

\* num_channels / cols with cols = 0
TwGridZeroDivision ==
    /\ pc = "tw_grid"
    /\ HasLen(tw.channels)
    /\ GridCols(Len(tw.channels.items)) = 0
    /\ Raise("ZeroDivisionError", tw.caller)
    /\ tw' = [tw EXCEPT !.num_channels = Len(tw.channels.items), !.cols = 0]
    /\ UNCHANGED <<call, shown, rng, pk, im, un, ref>>

TwGrid ==
    /\ pc = "tw_grid"
    /\ HasLen(tw.channels)
    /\ LET n == Len(tw.channels.items)
           cols == GridCols(n)
       IN  /\ cols # 0
           /\ tw' = [tw EXCEPT !.num_channels = n, !.cols = cols, !.rows = GridRows(n),
                               !.axs = Subplots(GridRows(n), cols), !.i = 0]
    /\ pc' = "tw_plot"
    /\ UNCHANGED <<call, err, shown, rng, pk, im, un, ref>>

\* one iteration of `for i, channel in enumerate(channels)`
TwPlot ==
    /\ pc = "tw_plot"
    /\ tw.i < tw.num_channels
    /\ LET channel == tw.channels.items[tw.i + 1]
       IN  IF tw.i >= Len(tw.axs)
           THEN Raise("IndexError_axs", tw.caller) /\ UNCHANGED tw
           ELSE IF ~ValidChannel(channel)
           THEN Raise("IndexError_channel", tw.caller) /\ UNCHANGED tw
           ELSE /\ tw' = [tw EXCEPT !.axs[tw.i + 1].plots = Append(@, <<tw.sample_time, channel>>),
                                    !.i = @ + 1]
                /\ UNCHANGED <<pc, err>>
    /\ UNCHANGED <<call, shown, rng, pk, im, un, ref>>

TwPlotEnd ==
    /\ pc = "tw_plot"
    /\ tw.i = tw.num_channels
    /\ pc' = "tw_off"
    /\ tw' = [tw EXCEPT !.i = FirstUnused(tw)]
    /\ UNCHANGED <<call, err, shown, rng, pk, im, un, ref>>

\* one iteration of `for i in range(num_channels, rows * cols)`
TwOff ==
    /\ pc = "tw_off"
    /\ tw.i < tw.rows * tw.cols
    /\ IF tw.i >= Len(tw.axs)
       THEN Raise("IndexError_axs", tw.caller) /\ UNCHANGED tw
       ELSE /\ tw' = [tw EXCEPT !.axs[tw.i + 1].off = @ + 1, !.i = @ + 1]
            /\ UNCHANGED <<pc, err>>
    /\ UNCHANGED <<call, shown, rng, pk, im, un, ref>>

\* plt.tight_layout(); plt.show(); return to the caller
TwShow ==
    /\ pc = "tw_off"
    /\ tw.i >= tw.rows * tw.cols
    /\ shown' = shown + 1
    /\ IF tw.caller = "peak"
       THEN /\ pc' = "pk_ret"
            /\ pk' = [pk EXCEPT !.plotted = Append(@, pk.idx)]
       ELSE /\ pc' = "done"
            /\ pk' = pk
    /\ UNCHANGED <<call, err, rng, tw, im, un, ref>>

(***************************************************************************)
(* plot_peak_waveform                                                       *)
(***************************************************************************)
NoRow == [kind |-> "norow", val |-> 0, items |-> <<>>]

\* what a row's peak_channel cell may hold: a channel number (a numpy integer)
\* or a list of channel numbers, with or without a channel the recording lacks
PeakChannelValues == {PyInt(0), PyList(<<0, 1>>), PyList(<<2>>)}

\* the peak_frame of the row labelled r
PeakFrameOf(r) == 100 + r

RowLabels == 0 .. MaxIdx

\* a peaks table: for each label, no such row or the row's peak_channel cell
PeakTables == [RowLabels -> PeakChannelValues \cup {NoRow}]

\* peaks_noise_table.loc[idx, column] raises KeyError for a label the table lacks
HasRow(table, idx) == idx \in DOMAIN table /\ table[idx] # NoRow

PkCall ==
    /\ Ready
    /\ \E table \in PeakTables, s \in RowLabels, e \in RowLabels :
          pk' = [PkNone EXCEPT !.table = table, !.start_idx = s, !.end_idx = e, !.idx = s]
    /\ pc' = "pk_loop"
    /\ call' = "plot_peak_waveform"
    /\ UNCHANGED <<err, shown, rng, tw, im, un, ref>>

\* the loop body for idx: both cells are read, then plot_trace_waveform is entered
PkRow ==
    /\ pc = "pk_loop"
    /\ pk.idx <= pk.end_idx
    /\ IF ~HasRow(pk.table, pk.idx)
       THEN /\ Raise("KeyError", "peak_row")
            /\ UNCHANGED <<tw, pk>>
       ELSE /\ tw' = TwEnter("peak", PeakFrameOf(pk.idx), pk.table[pk.idx])
            /\ pk' = [pk EXCEPT !.calls = Append(@, pk.idx)]
            /\ pc' = "tw_grid"
            /\ err' = err
    /\ UNCHANGED <<call, shown, rng, im, un, ref>>

\* plot_trace_waveform returned: the for loop takes the next idx
PkAdvance ==
    /\ pc = "pk_ret"
    /\ pc' = "pk_loop"
    /\ pk' = [pk EXCEPT !.idx = @ + 1]
    /\ tw' = TwNone
    /\ UNCHANGED <<call, err, shown, rng, im, un, ref>>

\* range(start_idx, end_idx + 1) is exhausted
PkReturn ==
    /\ pc = "pk_loop"
    /\ pk.idx > pk.end_idx
    /\ pc' = "done"
    /\ UNCHANGED <<call, err, shown, rng, tw, pk, im, un, ref>>

(***************************************************************************)
(* plot_trace_image                                                         *)
(***************************************************************************)
\* plt.subplot(1, 2, i + 1): the figure has two positions
SubplotPositions == 2

\* get_trace_reshaped: an array indexed [time, channel, variant]
TracesReshaped(nvar) == [TimeIdx \X ChanIdx \X (0 .. nvar - 1) -> Amplitudes]

\* np.transpose(trace_reshaped, (1, 0, 2)): indexed [channel, time, variant]
Transpose(a, nvar) ==
    [x \in ChanIdx \X TimeIdx \X (0 .. nvar - 1) |-> a[<<x[2], x[1], x[3]>>]]

\* trace_transposed[:, :, i]
Panel(tt, i) == [x \in ChanIdx \X TimeIdx |-> tt[<<x[1], x[2], i>>]]

Values(f) == {f[x] : x \in DOMAIN f}

ColorScaleOfFirstVariant(tt) ==
    <<MinOf(Values(Panel(tt, 0))), MaxOf(Values(Panel(tt, 0)))>>

\* trace_transposed.min(), trace_transposed.max()
ColorScale(tt) == <<MinOf(Values(tt)), MaxOf(Values(tt))>>

ImCall ==
    /\ Ready
    /\ \E nvar \in VariantCounts :
       \E a \in TracesReshaped(nvar) :
          LET tt == Transpose(a, nvar)
          IN  im' = [ImNone EXCEPT !.nvar = nvar, !.trace_reshaped = a,
                                   !.trace_transposed = tt,
                                   !.vmin = ColorScale(tt)[1], !.vmax = ColorScale(tt)[2]]
    /\ pc' = "im_loop"
    /\ call' = "plot_trace_image"
    /\ UNCHANGED <<err, shown, rng, tw, pk, un, ref>>

\* one iteration of `for i in range(trace_reshaped.shape[2])`
ImPanel ==
    /\ pc = "im_loop"
    /\ im.i < im.nvar
    /\ IF im.i + 1 > SubplotPositions
       THEN /\ Raise("ValueError", "top")
            /\ im' = im
       ELSE /\ im' = [im EXCEPT !.panels = Append(@, [data |-> Panel(im.trace_transposed, im.i),
                                                       vmin |-> im.vmin, vmax |-> im.vmax]),
                                !.i = @ + 1]
            /\ UNCHANGED <<pc, err>>
    /\ UNCHANGED <<call, shown, rng, tw, pk, un, ref>>

\* labels, colorbar, plt.show()
ImShow ==
    /\ pc = "im_loop"
    /\ im.i = im.nvar
    /\ pc' = "done"
    /\ shown' = shown + 1
    /\ UNCHANGED <<call, err, rng, tw, pk, im, un, ref>>

(***************************************************************************)
(* plot_unit_waveform                                                       *)
(***************************************************************************)
FrameOfSpike(k) == 10 * k

RECURSIVE UnitFramesUpTo(_, _, _)
UnitFramesUpTo(spikes, unit_id, k) ==
    IF k = 0 THEN <<>>
    ELSE UnitFramesUpTo(spikes, unit_id, k - 1)
         \o (IF spikes[k] = unit_id THEN <<FrameOfSpike(k)>> ELSE <<>>)

\* preprocessing.get_unit_frames(spikes, unit_id): the unit's frames, in table order
GetUnitFrames(spikes, unit_id) == UnitFramesUpTo(spikes, unit_id, Len(spikes))

PlotsEverythingIgnoringFlag(u) == Len(u.sample_frames) < u.num_waveforms

PlotsEverythingIgnoringCount(u) == u.all_waveforms

\* the branches that set frames_to_plot = sample_frames
PlotsEverything(u) == u.all_waveforms \/ Len(u.sample_frames) < u.num_waveforms

KeyOf(u) == <<u.seed, u.spikes, u.unit_id, u.num_waveforms, u.all_waveforms>>

UnCall ==
    /\ Ready
    /\ \E spikes \in SpikeTables, unit_id \in UnitIds, channel_id \in {0, 2},
          all_waveforms \in BOOLEAN, num_waveforms \in 0 .. MaxNum, seed \in Seeds :
          un' = [UnNone EXCEPT !.spikes = spikes, !.unit_id = unit_id,
                               !.channel_id = channel_id, !.all_waveforms = all_waveforms,
                               !.num_waveforms = num_waveforms, !.seed = seed,
                               !.sample_frames = GetUnitFrames(spikes, unit_id)]
    /\ pc' = "un_select"
    /\ call' = "plot_unit_waveform"
    /\ UNCHANGED <<err, shown, rng, tw, pk, im, ref>>

\* frames_to_plot = sample_frames
UnSelectAll ==
    /\ pc = "un_select"
    /\ PlotsEverything(un)
    /\ un' = [un EXCEPT !.frames_to_plot = un.sample_frames,
                        !.positions = [k \in 1 .. Len(un.sample_frames) |-> k - 1]]
    /\ pc' = "un_plot"
    /\ UNCHANGED <<call, err, shown, rng, tw, pk, im, ref>>

\* np.random.seed(seed)
UnSeed ==
    /\ pc = "un_select"
    /\ ~PlotsEverything(un)
    /\ rng' = NpRandomSeed(rng, un.seed)
    /\ pc' = "un_choice"
    /\ UNCHANGED <<call, err, shown, tw, pk, im, un, ref>>

\* frames_to_plot = np.random.choice(sample_frames, num_waveforms)
UnChoice ==
    /\ pc = "un_choice"
    /\ IF Len(un.sample_frames) = 0 /\ un.num_waveforms > 0
       THEN /\ Raise("ValueError", "top")
            /\ UNCHANGED <<rng, un>>
       ELSE LET drawn == NpRandomChoice(rng, Len(un.sample_frames), un.num_waveforms)
            IN  /\ un' = [un EXCEPT !.sampled = TRUE, !.positions = drawn[1],
                                    !.frames_to_plot =
                                        [k \in DOMAIN drawn[1] |-> un.sample_frames[drawn[1][k] + 1]]]
                /\ rng' = drawn[2]
                /\ pc' = "un_plot"
                /\ err' = err
    /\ UNCHANGED <<call, shown, tw, pk, im, ref>>

\* one iteration of `for frame in frames_to_plot`
UnPlotBody ==
    /\ pc = "un_plot"
    /\ Len(un.lines) < Len(un.frames_to_plot)
    /\ IF ~ValidChannel(un.channel_id)
       THEN /\ Raise("IndexError_channel", "top")
            /\ un' = un
       ELSE /\ un' = [un EXCEPT !.lines =
                         Append(@, <<un.frames_to_plot[Len(un.lines) + 1], un.channel_id>>)]
            /\ UNCHANGED <<pc, err>>
    /\ UNCHANGED <<call, shown, rng, tw, pk, im>>

UnPlot == UnPlotBody /\ UNCHANGED ref

\* axis labels, title, plt.show()
UnShowBody ==
    /\ pc = "un_plot"
    /\ Len(un.lines) = Len(un.frames_to_plot)
    /\ pc' = "done"
    /\ shown' = shown + 1
    /\ UNCHANGED <<call, err, rng, tw, pk, im, un>>

UnShow == UnShowBody /\ UNCHANGED ref

\* the same step, with the observer keeping this call's inputs and selection
\* as the reference for later calls
UnShowObserved ==
    /\ UnShowBody
    /\ ref' = [set |-> TRUE, key |-> KeyOf(un), sel |-> un.frames_to_plot]

(***************************************************************************)
(* Between calls                                                            *)
(***************************************************************************)
\* the caller takes the outcome (a return or the exception) and goes on
Finish ==
    /\ pc \in {"done", "raised"}
    /\ pc' = "idle"
    /\ call' = "none"
    /\ err' = "none"
    /\ shown' = 0
    /\ tw' = TwNone
    /\ pk' = PkNone
    /\ im' = ImNone
    /\ un' = UnNone
    /\ UNCHANGED <<rng, ref>>

\* any other code of the process that seeds or draws from np.random
RandomDraw ==
    /\ pc = "idle"
    /\ \E s \in RngStates : rng' = s /\ s # rng
    /\ UNCHANGED <<pc, call, err, shown, tw, pk, im, un, ref>>

Init ==
    /\ pc = "idle"
    /\ call = "none"
    /\ err = "none"
    /\ shown = 0
    /\ rng \in RngStates
    /\ tw = TwNone
    /\ pk = PkNone
    /\ im = ImNone
    /\ un = UnNone
    /\ ref = RefNone

Next ==
    \/ TwCall
    \/ TwLenTypeError
    \/ TwGridZeroDivision
    \/ TwGrid
    \/ TwPlot
    \/ TwPlotEnd
    \/ TwOff
    \/ TwShow
    \/ PkCall
    \/ PkRow
    \/ PkAdvance
    \/ PkReturn
    \/ ImCall
    \/ ImPanel
    \/ ImShow
    \/ UnCall
    \/ UnSelectAll
    \/ UnSeed
    \/ UnChoice
    \/ UnPlot
    \/ UnShow
    \/ RandomDraw
    \/ Finish

Spec == Init /\ [][Next]_vars

\* plot_unit_waveform calls alone, any other use of the generator in between,
\* and an observer that may keep any finished call as the reference
NextObserved ==
    \/ UnCall
    \/ UnSelectAll
    \/ UnSeed
    \/ UnChoice
    \/ UnPlot
    \/ UnShow
    \/ UnShowObserved
    \/ RandomDraw
    \/ Finish

SpecObserved == Init /\ [][NextObserved]_vars

(***************************************************************************)
(* Properties                                                               *)
(***************************************************************************)
InUnit == call = "plot_unit_waveform"

InPeak == call = "plot_peak_waveform"

InImage == call = "plot_trace_image"

\* plot_trace_waveform is running or has just ended, for a list of channels
InGrid == tw.caller # "none" /\ HasLen(tw.channels)

Distinct(s) == \A j, k \in DOMAIN s : j # k => s[j] # s[k]

IsPrefix(s, t) == Len(s) <= Len(t) /\ \A k \in DOMAIN s : s[k] = t[k]

Range(s) == {s[k] : k \in DOMAIN s}

Interval(a, b) == [k \in 1 .. (IF b >= a THEN b - a + 1 ELSE 0) |-> a + k - 1]

\* the channel numbers a peak_channel cell names
ChannelsOf(v) == IF v.kind = "list" THEN Range(v.items) ELSE {v.val}

\* every row of the range exists and names channels of the recording only
PeakInputInRange ==
    \A r \in pk.start_idx .. pk.end_idx :
        HasRow(pk.table, r) /\ ChannelsOf(pk.table[r]) \subseteq ValidChannels

\* C1 (as claimed): when all_waveforms is false and there are at least
\* num_waveforms frames, the selection has exactly num_waveforms entries and
\* takes no position of the unit's frame sequence twice.
C1_SampleWithoutReplacement ==
    (InUnit /\ un.sampled)
        => /\ Len(un.positions) = un.num_waveforms
           /\ Distinct(un.positions)
           /\ (pc = "done" => Len(un.lines) = un.num_waveforms)

\* C2 (as claimed): for every length n of the channel list, n = 0 included, the
\* grid is computed and has rows*cols >= n and rows*cols - n < cols.
C2_GridEveryLength ==
    (InGrid /\ pc # "tw_grid")
        => LET n == Len(tw.channels.items)
           IN  /\ err # "ZeroDivisionError"
               /\ tw.rows * tw.cols >= n
               /\ tw.rows * tw.cols - n < tw.cols

\* C2 (amended): for every length n >= 1 the grid is computed, cols is the
\* ceiling of sqrt(n), rows the ceiling of n/cols, rows*cols >= n and
\* rows*cols - n < cols; for n = 0 the division by cols = 0 raises
\* ZeroDivisionError and no grid is made.
C2_GridPositiveLength ==
    (InGrid /\ pc # "tw_grid")
        => LET n == Len(tw.channels.items)
           IN  /\ n >= 1 =>
                   /\ err # "ZeroDivisionError"
                   /\ tw.num_channels = n
                   /\ (tw.cols - 1) * (tw.cols - 1) < n /\ n <= tw.cols * tw.cols
                   /\ (tw.rows - 1) * tw.cols < n /\ n <= tw.rows * tw.cols
                   /\ tw.rows * tw.cols >= n
                   /\ tw.rows * tw.cols - n < tw.cols
               /\ n = 0 =>
                   /\ pc = "raised"
                   /\ err = "ZeroDivisionError"
                   /\ tw.axs = <<>>

\* C2 (witness): a grid with a row that is not full: n = 5 on 2 x 3
C2_Witness ==
    /\ InGrid
    /\ pc = "tw_plot"
    /\ Len(tw.channels.items) = 5
    /\ tw.rows = 2
    /\ tw.cols = 3

\* C3 (as claimed): with start_idx <= end_idx, plot_peak_waveform invokes
\* plot_trace_waveform once for each row of start_idx .. end_idx, in ascending
\* order, by the time the call is over (the rows exist and name channels of the
\* recording).
C3_OneCallPerRow ==
    (InPeak /\ pc \in {"done", "raised"} /\ pk.start_idx <= pk.end_idx /\ PeakInputInRange)
        => pk.calls = Interval(pk.start_idx, pk.end_idx)

\* C4 (as claimed): the grid-plot call made for a row of the range shows one
\* figure for it: the row's peak_channel is taken as a channel list (the rows
\* exist and name channels of the recording).
C4_FigurePerRow ==
    (InPeak /\ PeakInputInRange)
        => /\ err # "TypeError"
           /\ (pc \in {"pk_ret", "pk_loop", "done", "raised"} => pk.plotted = pk.calls)
           /\ shown = Len(pk.plotted)

\* C5: when all_waveforms is true or there are fewer frames than num_waveforms,
\* the frames plotted are the whole sequence get_unit_frames returned: nothing
\* is sampled, the lines drawn are the frames in their order, and a call that
\* returns has drawn one line per frame.
C5_PlotsEveryFrame ==
    (InUnit /\ (un.all_waveforms \/ Len(un.sample_frames) < un.num_waveforms)
            /\ pc # "un_select")
        => /\ pc \in {"un_plot", "done", "raised"}
           /\ ~un.sampled
           /\ un.frames_to_plot = un.sample_frames
           /\ IsPrefix(un.lines, [k \in DOMAIN un.sample_frames |->
                                      <<un.sample_frames[k], un.channel_id>>])
           /\ (pc = "done" => Len(un.lines) = Len(un.sample_frames))
           /\ (pc = "raised" => err = "IndexError_channel")

\* C5 (witness): all_waveforms false, fewer frames than num_waveforms, every frame drawn
C5_Witness ==
    /\ InUnit
    /\ pc = "done"
    /\ ~un.all_waveforms
    /\ Len(un.sample_frames) = 2
    /\ un.num_waveforms = 3
    /\ Len(un.lines) = 2

\* C6: a call with the seed, spikes, unit_id, num_waveforms and all_waveforms
\* of the reference call selects the frames the reference call selected,
\* whatever the generator's state was when the call began.
C6_SameSeedSameSelection ==
    (InUnit /\ pc \in {"un_plot", "done"} /\ ref.set /\ ref.key = KeyOf(un))
        => un.frames_to_plot = ref.sel

\* C6 (witness): a second sampling call with the reference call's inputs
C6_Witness ==
    /\ InUnit
    /\ pc = "un_plot"
    /\ un.sampled
    /\ ref.set
    /\ ref.key = KeyOf(un)
    /\ Len(ref.sel) >= 2

\* C7: every panel drawn carries the bounds computed before the loop, these
\* are the minimum and maximum of the whole trace, and in the figure shown
\* they are the minimum and maximum over the data of its panels together.
C7_SharedColorScale ==
    InImage
        => /\ im.vmin = MinOf(Values(im.trace_reshaped))
           /\ im.vmax = MaxOf(Values(im.trace_reshaped))
           /\ \A k \in DOMAIN im.panels :
                 /\ im.panels[k].vmin = im.vmin
                 /\ im.panels[k].vmax = im.vmax
                 /\ \A x \in ChanIdx \X TimeIdx :
                       im.panels[k].data[x] = im.trace_reshaped[<<x[2], x[1], k - 1>>]
           /\ pc = "done" =>
                 LET all == UNION {Values(im.panels[k].data) : k \in DOMAIN im.panels}
                 IN  /\ Len(im.panels) = im.nvar
                     /\ im.vmin = MinOf(all)
                     /\ im.vmax = MaxOf(all)

\* C7 (witness): two panels shown, neither of which holds both the global minimum and maximum
C7_Witness ==
    /\ InImage
    /\ pc = "done"
    /\ Len(im.panels) = 2
    /\ MinOf(Values(im.panels[1].data)) > im.vmin
    /\ MaxOf(Values(im.panels[2].data)) < im.vmax

\* the figure of plot_trace_waveform has been shown
GridShown == InGrid /\ (pc = "pk_ret" \/ (pc = "done" /\ call = "plot_trace_waveform"))

\* C8: for a channel list of length n >= 1 the grid has rows*cols cells, no
\* other cell index is used, cell i holds the one line of channels[i], and in
\* the figure shown the cells n .. rows*cols-1 are hidden once each: every
\* cell is plotted once or hidden once, never both and never neither.
C8_CellsPlottedOrHidden ==
    (InGrid /\ pc # "tw_grid" /\ Len(tw.channels.items) >= 1)
        => LET n == Len(tw.channels.items)
           IN  /\ err # "IndexError_axs"
               /\ Len(tw.axs) = tw.rows * tw.cols
               /\ \A k \in DOMAIN tw.axs :
                     /\ Len(tw.axs[k].plots) + tw.axs[k].off <= 1
                     /\ tw.axs[k].plots # <<>> =>
                           /\ k <= n
                           /\ tw.axs[k].plots = <<(<<tw.sample_time, tw.channels.items[k]>>)>>
                     /\ tw.axs[k].off = 1 => k > n
               /\ GridShown =>
                     \A k \in DOMAIN tw.axs : Len(tw.axs[k].plots) + tw.axs[k].off = 1

\* C8 (witness): a shown grid with a repeated channel and a hidden cell
C8_Witness ==
    /\ GridShown
    /\ Len(tw.channels.items) = 5
    /\ tw.channels.items[1] = tw.channels.items[2]
    /\ tw.axs[6].off = 1

\* C9: a failure at row k of plot_peak_waveform leaves the call at once: the
\* rows start_idx .. k-1 have been plotted once each, row k is the last row
\* read, and nothing of k+1 .. end_idx is read or plotted.
C9_FailureAbortsRange ==
    (InPeak /\ err # "none")
        => /\ pc = "raised"
           /\ pk.idx \in pk.start_idx .. pk.end_idx
           /\ pk.plotted = Interval(pk.start_idx, pk.idx - 1)
           /\ shown = Len(pk.plotted)
           /\ pk.calls = (IF err = "KeyError" THEN Interval(pk.start_idx, pk.idx - 1)
                          ELSE Interval(pk.start_idx, pk.idx))

\* C9 (witness): a failure after a plotted row, with rows of the range left
C9_Witness ==
    /\ InPeak
    /\ pc = "raised"
    /\ err = "IndexError_channel"
    /\ Len(pk.plotted) = 1
    /\ pk.idx < pk.end_idx

\* C10: the generator's state changes inside this module only in
\* plot_unit_waveform's sampling branch (all_waveforms false and at least
\* num_waveforms frames), where it is first set from seed and the draw is made
\* from that state; every other step of the four functions leaves it alone.
C10_GeneratorTouchedOnlyBySampling ==
    [][/\ rng' # rng =>
             \/ pc = "idle" /\ pc' = "idle"
             \/ /\ InUnit
                /\ ~un.all_waveforms
                /\ Len(un.sample_frames) >= un.num_waveforms
                /\ pc \in {"un_select", "un_choice"}
       /\ pc' = "un_choice" => rng' = NpRandomSeed(rng, un'.seed)
       /\ (pc = "un_choice" /\ pc' = "un_plot") =>
             /\ rng = NpRandomSeed(rng, un.seed)
             /\ un'.positions =
                   NpRandomChoice(NpRandomSeed(rng, un.seed), Len(un.sample_frames),
                                  un.num_waveforms)[1]
      ]_vars

\* C10 (witness): the sampling branch has re-seeded and drawn, moving the generator
C10_Witness ==
    /\ InUnit
    /\ pc = "un_plot"
    /\ un.sampled
    /\ un.num_waveforms >= 2
    /\ rng # NpRandomSeed(rng, un.seed)
====
